---------------------------- MODULE Spec2Model ----------------------------
(***************************************************************************)
(* A model of src/lambda/handler.py: the S3 -> ECR backup function.        *)
(*                                                                         *)
(* The four functions of the file are modelled call by call:               *)
(*   ensure_repository_exists   (lines 22-38)                              *)
(*   upload_to_ecr              (lines 41-113)                             *)
(*   cleanup_untagged_images    (lines 115-156)                            *)
(*   lambda_handler             (lines 159-214)                            *)
(* Every boto3 call is one atomic step of the invocation that makes it, so *)
(* that invocations interleave between calls.  Every call either returns   *)
(* or raises ClientError; what the handler does with the exception is      *)
(* taken from the try/except blocks of the source.                         *)
(*                                                                         *)
(* The object store and the registry are the two services the code talks   *)
(* to.  Their state is modelled by the contract the calls of the source    *)
(* rely on: a repository, upload sessions, a content-addressed set of      *)
(* layers, a content-addressed set of images (manifests), and tags that    *)
(* each point to one image, last writer wins.                              *)
(*                                                                         *)
(* Line 115 of the source indents "def cleanup_untagged_images" by four    *)
(* columns while its body stays at four columns; the model reads it as the *)
(* module-level function its body and docstring describe.                  *)
(***************************************************************************)
EXTENDS Integers, Sequences, FiniteSets, TLC

\* ------------------------------------------------------------------ bounds

\* Longest object, in bytes.
MaxLen == 1

\* Invocations of the entry point one execution context serves in a row.
MaxRuns == 2

\* Calls of one invocation that the services fail (or corrupt).
MaxFaults == 3

\* Sweeps run on demand, one after the other.
MaxSweeps == 2

\* Images no tag points to that the registry holds before anything runs.
MaxStored == 2

\* ------------------------------------------------------------- data domain

\* Byte values that occur in objects (two stand for all 256).
ByteVals == {0, 255}

\* Object keys, in the order list_objects_v2 returns them (UTF-8 binary).
KeyOrder == <<"A", "B", "C">>

Keys == {KeyOrder[i] : i \in 1..Len(KeyOrder)}

\* Concurrent invocations.
Procs == {1, 2}

RECURSIVE SeqsUpTo(_)
SeqsUpTo(n) ==
    IF n = 0 THEN {<<>>}
    ELSE LET shorter == SeqsUpTo(n - 1)
         IN  shorter \cup {Append(s, b) : s \in {t \in shorter : Len(t) = n - 1},
                                         b \in ByteVals}

\* Every byte string an object can hold.
Bytes == SeqsUpTo(MaxLen)

\* A local variable that holds no byte string.
NoBytes == <<-1>>

\* ---------------------------------------------------------------- hashing

\* An injective numbering of byte strings (digits 1.., so no leading zero).
RECURSIVE Code(_)
Code(b) ==
    IF b = <<>> THEN 0
    ELSE Code(SubSeq(b, 1, Len(b) - 1)) * 3 + (IF b[Len(b)] = 0 THEN 1 ELSE 2)

\* hashlib.sha256(b).hexdigest(): 64 hex digits, held as the value of the
\* first 12 (head) and the value of the other 52 (tail).  The digest is
\* injective on the byte strings of the model, as SHA-256 is taken to be;
\* the first 12 digits alone are not: 48 bits cannot tell all contents
\* apart, and some contents of the model share them.
sha256_hexdigest(b) ==
    LET mix == (Code(b) * 9 + 151) % 256
    IN  [head |-> mix \div 16, tail |-> mix % 16]

\* hexdigest()[:12]: the first 12 hex digits.
First12(d) == d.head

NoDigest == [head |-> -1, tail |-> -1]

\* An image tag that is not set.
NoTag == -1

\* f"sha256:{hexdigest}"
Sha256Prefixed(d) == [alg |-> "sha256", hex |-> d]

NoLayerDigest == [alg |-> "none", hex |-> NoDigest]

\* ------------------------------------------------------------------- state

VARIABLES
    bucket,        \* object store: key -> bytes, for the keys under the prefix
    repository,    \* registry: the repository record, or NoRepository
    uploads,       \* registry: open upload sessions, uploadId -> bytes received
    nextUploadId,  \* registry: the next upload identifier it hands out
    layers,        \* registry: digests of the completed layers
    images,        \* registry: the manifests it holds
    tags,          \* registry: tag -> manifest
    pc,            \* per invocation: the call it makes next
    runs,          \* per execution context: invocations started so far
    faults,        \* per invocation: calls the services failed so far
    repo_uri,      \* lambda_handler: repo_uri
    contents,      \* lambda_handler: response["Contents"], as keys
    idx,           \* lambda_handler: position of the for loop in contents
    results,       \* lambda_handler: results
    ret,           \* lambda_handler: the value returned, or NoReturn
    raised,        \* lambda_handler: the call whose error left it, or "none"
    file_bytes,    \* lambda_handler / upload_to_ecr: file_bytes
    image_tag,     \* upload_to_ecr: image_tag
    upload_id,     \* upload_to_ecr: upload_id
    layer_digest,  \* upload_to_ecr: layer_digest
    calls,         \* history: the calls of the current invocation, in order
    sent,          \* history: the arguments of its upload and put calls, in order
    prev_raised,   \* history: the call whose error left the invocation before
    firstTag,      \* history: bytes -> the tag its first publish returned
    sweep_pc,      \* cleanup_untagged_images: the call it makes next
    sweeps,        \* sweeps started so far
    image_ids,     \* cleanup_untagged_images: image_ids
    sweep_out,     \* cleanup_untagged_images: what it logged (deleted, failures)
    sweep_ret,     \* cleanup_untagged_images: the value returned, or NoReturn
    sweep_calls    \* history: the calls of the sweeps, in order

registryVars == <<repository, uploads, nextUploadId, layers, images, tags>>

handlerVars == <<pc, runs, faults, repo_uri, contents, idx, results, ret, raised,
                 file_bytes, image_tag, upload_id, layer_digest, calls, sent,
                 prev_raised, firstTag>>

sweepVars == <<sweep_pc, sweeps, image_ids, sweep_out, sweep_ret, sweep_calls>>

vars == <<bucket, registryVars, handlerVars, sweepVars>>

\* ------------------------------------------------------------ environment

\* os.environ.get("ECR_REPO_NAME")
ECR_REPO_NAME == "backup"

NoRepository == [repositoryName |-> "none", repositoryUri |-> "none"]

\* The record the registry keeps for the repository of that name.
RepositoryRecord(name) == [repositoryName |-> name, repositoryUri |-> "uri-of-" \o name]

NoReturn == [status |-> "none"]

\* the value of a function that ends with a bare return, or with none
None == [status |-> "None"]

\* The keys list_objects_v2 returns: those of the bucket, in key order.
Listing == SelectSeq(KeyOrder, LAMBDA k : k \in DOMAIN bucket)

\* The byte strings a transfer can deliver instead of b: one byte changed.
Corrupted(b) ==
    {[b EXCEPT ![i] = v] : i \in 1..Len(b), v \in ByteVals} \ {b}

\* The images no tag points to.
Untagged == {m \in images : \A t \in DOMAIN tags : tags[t] # m}

\* The manifest digest the registry identifies an image by.
imageDigest(m) == [alg |-> "sha256", of |-> m]

\* One more call for the service to fail in this invocation.
CanFault(p) == faults[p] < MaxFaults

\* A call as the history keeps it.
Call(api, key, out, id) == [api |-> api, key |-> key, out |-> out, uploadId |-> id]

\* --------------------------------------------------------- upload_to_ecr

\* The bytes of an object key (key.encode()), for the seeded fault below.
KeyBytes(object_key) ==
    CHOOSE b \in SeqsUpTo(Len(KeyOrder)) :
        /\ Len(b) >= 1
        /\ KeyOrder[Len(b)] = object_key
        /\ \A i \in 1..Len(b) : b[i] = 0

\* Fault seeding: the tag is taken from the hash of the key.
ImageTag_OfKey(object_key, b) == First12(sha256_hexdigest(KeyBytes(object_key)))

\* Fault seeding: every image gets one fixed tag.
ImageTag_Fixed(object_key, b) == 0

\* Fault seeding: the tag also carries the number of the invocation.
ImageTag_PerRun(object_key, b) == First12(sha256_hexdigest(b)) + 16 * runs[1]

\* The image tag: the first 12 hex digits of the SHA-256 of the content.
ImageTag(object_key, b) == First12(sha256_hexdigest(b))

\* The layer digest declared at completion and written into the manifest.
LayerDigest(b) == Sha256Prefixed(sha256_hexdigest(b))

\* Fault seeding: the config descriptor is given the size of an empty blob.
imageManifest_EmptyConfig(digest, size) ==
    [schemaVersion |-> 2,
     mediaType |-> "application/vnd.oci.image.manifest.v1+json",
     config |-> [mediaType |-> "application/vnd.oci.image.config.v1+json",
                 digest |-> digest, size |-> 0],
     layers |-> << [mediaType |-> "application/vnd.oci.image.layer.v1.tar",
                    digest |-> digest, size |-> size] >>]

\* The manifest put_image sends.
imageManifest(digest, size) ==
    [schemaVersion |-> 2,
     mediaType |-> "application/vnd.oci.image.manifest.v1+json",
     config |-> [mediaType |-> "application/vnd.oci.image.config.v1+json",
                 digest |-> digest, size |-> size],
     layers |-> << [mediaType |-> "application/vnd.oci.image.layer.v1.tar",
                    digest |-> digest, size |-> size] >>]

\* The arguments of upload_layer_part for an object of bytes b.
UploadLayerPartArgs(key, b) ==
    [api |-> "upload_layer_part", key |-> key,
     partFirstByte |-> 0, partLastByte |-> Len(b) - 1, layerPartBlob |-> b]

\* The arguments of complete_layer_upload.
CompleteLayerUploadArgs(key, digest) ==
    [api |-> "complete_layer_upload", key |-> key, layerDigests |-> <<digest>>]

\* The arguments of put_image.
PutImageArgs(key, manifest, tag) ==
    [api |-> "put_image", key |-> key, imageManifest |-> manifest, imageTag |-> tag]

\* The locals of upload_to_ecr and the loop body are gone once it is left.
DropLocals(p) ==
    /\ file_bytes' = [file_bytes EXCEPT ![p] = NoBytes]
    /\ image_tag' = [image_tag EXCEPT ![p] = NoTag]
    /\ upload_id' = [upload_id EXCEPT ![p] = 0]
    /\ layer_digest' = [layer_digest EXCEPT ![p] = NoLayerDigest]

\* An exception leaves lambda_handler: no value is returned, and the frame
\* (results included) is gone.
Raise(p, api, key, id) ==
    /\ pc' = [pc EXCEPT ![p] = "raised"]
    /\ raised' = [raised EXCEPT ![p] = api]
    /\ calls' = [calls EXCEPT ![p] = Append(@, Call(api, key, "error", id))]
    /\ results' = [results EXCEPT ![p] = <<>>]
    /\ DropLocals(p)
    /\ UNCHANGED <<runs, repo_uri, contents, idx, ret, firstTag>>

\* The service fails the call: ClientError.
Fault(p, api, key, id) ==
    /\ CanFault(p)
    /\ faults' = [faults EXCEPT ![p] = @ + 1]
    /\ Raise(p, api, key, id)

\* The for loop moves on with results r: the next object (file_bytes keeps
\* its value from this iteration), or the return.
LoopNext(p, r) ==
    /\ results' = [results EXCEPT ![p] = r]
    /\ IF idx[p] < Len(contents[p])
       THEN /\ idx' = [idx EXCEPT ![p] = @ + 1]
            /\ pc' = [pc EXCEPT ![p] = "get_object"]
            /\ ret' = ret
            /\ file_bytes' = file_bytes
       ELSE /\ idx' = idx
            /\ pc' = [pc EXCEPT ![p] = "done"]
            /\ ret' = [ret EXCEPT ![p] = [status |-> "success", items |-> r]]
            /\ file_bytes' = [file_bytes EXCEPT ![p] = NoBytes]

\* The call fails for a reason the registry's state gives.
Refuse(p, api, key, id) ==
    /\ faults' = faults
    /\ Raise(p, api, key, id)

\* ---------------------------------------------- ensure_repository_exists

\* Fault seeding: the except clause catches every error of the describe call,
\* not only RepositoryNotFoundException, and goes on to create.
ExceptDescribe_Any(p) ==
    /\ CanFault(p)
    /\ faults' = [faults EXCEPT ![p] = @ + 1]
    /\ pc' = [pc EXCEPT ![p] = "create_repository"]
    /\ calls' = [calls EXCEPT ![p] =
                    Append(@, Call("describe_repositories", "-", "error", 0))]
    /\ UNCHANGED <<runs, repo_uri, contents, idx, results, ret, raised,
                   file_bytes, image_tag, upload_id, layer_digest, firstTag>>

\* A failure of describe_repositories other than RepositoryNotFoundException
\* is caught by nothing: it leaves ensure_repository_exists and the handler.
ExceptDescribe(p) == Fault(p, "describe_repositories", "-", 0)

\* describe_repositories(repositoryNames=[ECR_REPO_NAME])
DescribeRepositories(p) ==
    /\ pc[p] = "describe_repositories"
    /\ sent' = sent
    /\ prev_raised' = prev_raised
    /\ UNCHANGED <<bucket, registryVars, sweepVars>>
    /\ \/ /\ repository # NoRepository
          /\ repo_uri' = [repo_uri EXCEPT ![p] = repository.repositoryUri]
          /\ pc' = [pc EXCEPT ![p] = "list_objects_v2"]
          /\ calls' = [calls EXCEPT ![p] =
                          Append(@, Call("describe_repositories", "-", "ok", 0))]
          /\ UNCHANGED <<runs, faults, contents, idx, results, ret, raised,
                         file_bytes, image_tag, upload_id, layer_digest, firstTag>>
       \/ /\ repository = NoRepository
          /\ pc' = [pc EXCEPT ![p] = "create_repository"]
          /\ calls' = [calls EXCEPT ![p] =
                          Append(@, Call("describe_repositories", "-", "not_found", 0))]
          /\ UNCHANGED <<runs, faults, repo_uri, contents, idx, results, ret, raised,
                         file_bytes, image_tag, upload_id, layer_digest, firstTag>>
       \/ ExceptDescribe(p)

\* Fault seeding: the handler ignores a failed provisioning and goes on to list.
CreateFails_Ignored(p) ==
    /\ CanFault(p)
    /\ faults' = [faults EXCEPT ![p] = @ + 1]
    /\ pc' = [pc EXCEPT ![p] = "list_objects_v2"]
    /\ calls' = [calls EXCEPT ![p] =
                    Append(@, Call("create_repository", "-", "error", 0))]
    /\ UNCHANGED <<runs, repo_uri, contents, idx, results, ret, raised,
                   file_bytes, image_tag, upload_id, layer_digest, firstTag>>

\* A failure of create_repository leaves ensure_repository_exists, and the
\* handler too: the call at line 170 is in no try.
CreateFails(p) == Fault(p, "create_repository", "-", 0)

\* create_repository(repositoryName=ECR_REPO_NAME), in the except branch
CreateRepository(p) ==
    /\ pc[p] = "create_repository"
    /\ sent' = sent
    /\ prev_raised' = prev_raised
    /\ UNCHANGED <<bucket, uploads, nextUploadId, layers, images, tags, sweepVars>>
    /\ \/ /\ repository = NoRepository
          /\ repository' = RepositoryRecord(ECR_REPO_NAME)
          /\ repo_uri' = [repo_uri EXCEPT ![p] = repository'.repositoryUri]
          /\ pc' = [pc EXCEPT ![p] = "list_objects_v2"]
          /\ calls' = [calls EXCEPT ![p] =
                          Append(@, Call("create_repository", "-", "ok", 0))]
          /\ UNCHANGED <<runs, faults, contents, idx, results, ret, raised,
                         file_bytes, image_tag, upload_id, layer_digest, firstTag>>
       \/ /\ repository # NoRepository
          /\ repository' = repository
          /\ Refuse(p, "create_repository", "-", 0)
       \/ /\ repository' = repository
          /\ CreateFails(p)

\* ------------------------------------------------------- lambda_handler

\* Fault seeding: an empty listing is reported as a sync of nothing.
NoObjects_AsSuccess == [status |-> "success", items |-> <<>>]

\* The value returned when the response holds no "Contents".
NoObjects == [status |-> "no_objects"]

\* Fault seeding: the error of list_objects_v2 is logged and the run ends as
\* with an empty listing.
ExceptListObjects_NoObjects(p) ==
    /\ CanFault(p)
    /\ faults' = [faults EXCEPT ![p] = @ + 1]
    /\ calls' = [calls EXCEPT ![p] = Append(@, Call("list_objects_v2", "-", "error", 0))]
    /\ pc' = [pc EXCEPT ![p] = "done"]
    /\ ret' = [ret EXCEPT ![p] = NoObjects]
    /\ UNCHANGED <<runs, repo_uri, contents, idx, results, raised,
                   file_bytes, image_tag, upload_id, layer_digest, firstTag>>

\* except ClientError around list_objects_v2: log, then raise
ExceptListObjects(p) == Fault(p, "list_objects_v2", "-", 0)

\* list_objects_v2(Bucket, Prefix), and the "Contents" test after it
ListObjects(p) ==
    /\ pc[p] = "list_objects_v2"
    /\ sent' = sent
    /\ prev_raised' = prev_raised
    /\ UNCHANGED <<bucket, registryVars, sweepVars>>
    /\ \/ /\ Listing = <<>>
          /\ pc' = [pc EXCEPT ![p] = "done"]
          /\ ret' = [ret EXCEPT ![p] = NoObjects]
          /\ calls' = [calls EXCEPT ![p] =
                          Append(@, Call("list_objects_v2", "-", "ok", 0))]
          /\ UNCHANGED <<runs, faults, repo_uri, contents, idx, results, raised,
                         file_bytes, image_tag, upload_id, layer_digest, firstTag>>
       \/ /\ Listing # <<>>
          /\ contents' = [contents EXCEPT ![p] = Listing]
          /\ idx' = [idx EXCEPT ![p] = 1]
          /\ results' = [results EXCEPT ![p] = <<>>]
          /\ pc' = [pc EXCEPT ![p] = "get_object"]
          /\ calls' = [calls EXCEPT ![p] =
                          Append(@, Call("list_objects_v2", "-", "ok", 0))]
          /\ UNCHANGED <<runs, faults, repo_uri, ret, raised,
                         file_bytes, image_tag, upload_id, layer_digest, firstTag>>
       \/ ExceptListObjects(p)

\* Fault seeding: the except clause logs and falls through to the upload,
\* with the file_bytes of the iteration before.
ExceptGetObject_NoContinue(p, key) ==
    /\ CanFault(p)
    /\ faults' = [faults EXCEPT ![p] = @ + 1]
    /\ calls' = [calls EXCEPT ![p] = Append(@, Call("get_object", key, "error", 0))]
    /\ pc' = [pc EXCEPT ![p] = "get_authorization_token"]
    /\ UNCHANGED <<runs, repo_uri, contents, idx, results, ret, raised,
                   file_bytes, image_tag, upload_id, layer_digest, firstTag>>

\* Fault seeding: the failed fetch is tried again, for the same key.
ExceptGetObject_Retry(p, key) ==
    /\ CanFault(p)
    /\ faults' = [faults EXCEPT ![p] = @ + 1]
    /\ calls' = [calls EXCEPT ![p] = Append(@, Call("get_object", key, "error", 0))]
    /\ pc' = [pc EXCEPT ![p] = "get_object"]
    /\ UNCHANGED <<runs, repo_uri, contents, idx, results, ret, raised,
                   file_bytes, image_tag, upload_id, layer_digest, firstTag>>

\* except ClientError around get_object: log, then continue with the next object
ExceptGetObject(p, key) ==
    /\ CanFault(p)
    /\ faults' = [faults EXCEPT ![p] = @ + 1]
    /\ calls' = [calls EXCEPT ![p] = Append(@, Call("get_object", key, "error", 0))]
    /\ LoopNext(p, results[p])
    /\ UNCHANGED <<runs, repo_uri, contents, raised,
                   image_tag, upload_id, layer_digest, firstTag>>

\* get_object(Bucket, Key=key) and Body.read(); on ClientError: continue
GetObject(p) ==
    LET key == contents[p][idx[p]] IN
    /\ pc[p] = "get_object"
    /\ sent' = sent
    /\ prev_raised' = prev_raised
    /\ UNCHANGED <<bucket, registryVars, sweepVars>>
    /\ \/ /\ file_bytes' = [file_bytes EXCEPT ![p] = bucket[key]]
          /\ pc' = [pc EXCEPT ![p] = "get_authorization_token"]
          /\ calls' = [calls EXCEPT ![p] = Append(@, Call("get_object", key, "ok", 0))]
          /\ UNCHANGED <<runs, faults, repo_uri, contents, idx, results, ret, raised,
                         image_tag, upload_id, layer_digest, firstTag>>
       \/ ExceptGetObject(p, key)

\* --------------------------------------------------------- upload_to_ecr

\* Fault seeding: the except clause logs and returns (no raise), and the
\* loop goes on with the next object.
ExceptClientError_Swallow(p, api, key, id) ==
    /\ CanFault(p)
    /\ faults' = [faults EXCEPT ![p] = @ + 1]
    /\ calls' = [calls EXCEPT ![p] = Append(@, Call(api, key, "error", id))]
    /\ LoopNext(p, Append(results[p], [object_key |-> key, image_tag |-> NoTag]))
    /\ image_tag' = [image_tag EXCEPT ![p] = NoTag]
    /\ upload_id' = [upload_id EXCEPT ![p] = 0]
    /\ layer_digest' = [layer_digest EXCEPT ![p] = NoLayerDigest]
    /\ UNCHANGED <<runs, repo_uri, contents, raised, firstTag>>

\* except ClientError in upload_to_ecr: log, then raise; lambda_handler
\* catches nothing around upload_to_ecr.
ExceptClientError(p, api, key, id) == Fault(p, api, key, id)

\* image_tag from the hash, then get_authorization_token() (outside the try)
GetAuthorizationToken(p) ==
    LET key == contents[p][idx[p]] IN
    /\ pc[p] = "get_authorization_token"
    /\ sent' = sent
    /\ prev_raised' = prev_raised
    /\ UNCHANGED <<bucket, registryVars, sweepVars>>
    /\ \/ /\ image_tag' = [image_tag EXCEPT ![p] = ImageTag(key, file_bytes[p])]
          /\ pc' = [pc EXCEPT ![p] = "initiate_layer_upload"]
          /\ calls' = [calls EXCEPT ![p] =
                          Append(@, Call("get_authorization_token", key, "ok", 0))]
          /\ UNCHANGED <<runs, faults, repo_uri, contents, idx, results, ret, raised,
                         file_bytes, upload_id, layer_digest, firstTag>>
       \/ Fault(p, "get_authorization_token", key, 0)

\* initiate_layer_upload(repositoryName): the registry opens a session
InitiateLayerUpload(p) ==
    LET key == contents[p][idx[p]] IN
    /\ pc[p] = "initiate_layer_upload"
    /\ sent' = sent
    /\ prev_raised' = prev_raised
    /\ UNCHANGED <<bucket, repository, layers, images, tags, sweepVars>>
    /\ \/ /\ upload_id' = [upload_id EXCEPT ![p] = nextUploadId]
          /\ uploads' = (nextUploadId :> NoBytes) @@ uploads
          /\ nextUploadId' = nextUploadId + 1
          /\ pc' = [pc EXCEPT ![p] = "upload_layer_part"]
          /\ calls' = [calls EXCEPT ![p] =
                          Append(@, Call("initiate_layer_upload", key, "ok", nextUploadId))]
          /\ UNCHANGED <<runs, faults, repo_uri, contents, idx, results, ret, raised,
                         file_bytes, image_tag, layer_digest, firstTag>>
       \/ /\ UNCHANGED <<uploads, nextUploadId>>
          /\ ExceptClientError(p, "initiate_layer_upload", key, 0)

\* Fault seeding: the completion call is left out.
AfterUploadLayerPart_PutImage == "put_image"

\* The call that follows upload_layer_part in upload_to_ecr.
AfterUploadLayerPart == "complete_layer_upload"

\* What the session holds after a part that carried b (the registry's side).
ReceivePart(id, b) == [uploads EXCEPT ![id] = b]

\* upload_layer_part(uploadId, partFirstByte=0, partLastByte=len-1, blob),
\* then layer_digest from the hash of file_bytes
UploadLayerPart(p) ==
    LET key == contents[p][idx[p]]
        id  == upload_id[p]
    IN
    /\ pc[p] = "upload_layer_part"
    /\ sent' = [sent EXCEPT ![p] = Append(@, UploadLayerPartArgs(key, file_bytes[p]))]
    /\ prev_raised' = prev_raised
    /\ UNCHANGED <<bucket, repository, nextUploadId, layers, images, tags, sweepVars>>
    /\ \/ /\ id \in DOMAIN uploads
          /\ \/ /\ uploads' = ReceivePart(id, file_bytes[p])
                /\ faults' = faults
             \/ /\ CanFault(p)
                /\ \E c \in Corrupted(file_bytes[p]) : uploads' = ReceivePart(id, c)
                /\ faults' = [faults EXCEPT ![p] = @ + 1]
          /\ layer_digest' = [layer_digest EXCEPT ![p] = LayerDigest(file_bytes[p])]
          /\ pc' = [pc EXCEPT ![p] = AfterUploadLayerPart]
          /\ calls' = [calls EXCEPT ![p] =
                          Append(@, Call("upload_layer_part", key, "ok", id))]
          /\ UNCHANGED <<runs, repo_uri, contents, idx, results, ret, raised,
                         file_bytes, image_tag, upload_id, firstTag>>
       \/ /\ id \notin DOMAIN uploads
          /\ uploads' = uploads
          /\ Refuse(p, "upload_layer_part", key, id)
       \/ /\ uploads' = uploads
          /\ ExceptClientError(p, "upload_layer_part", key, id)

\* The registry's check at completion: the session holds a blob whose digest
\* is the declared one.
CompletionValid(id, declared) ==
    /\ id \in DOMAIN uploads
    /\ uploads[id] # NoBytes
    /\ Sha256Prefixed(sha256_hexdigest(uploads[id])) = declared

\* The sessions left once session id is closed.
CloseUpload(id) == [u \in DOMAIN uploads \ {id} |-> uploads[u]]

\* complete_layer_upload(uploadId, layerDigests=[layer_digest])
CompleteLayerUpload(p) ==
    LET key == contents[p][idx[p]]
        id  == upload_id[p]
    IN
    /\ pc[p] = "complete_layer_upload"
    /\ sent' = [sent EXCEPT ![p] = Append(@, CompleteLayerUploadArgs(key, layer_digest[p]))]
    /\ prev_raised' = prev_raised
    /\ UNCHANGED <<bucket, repository, nextUploadId, images, tags, sweepVars>>
    /\ \/ /\ CompletionValid(id, layer_digest[p])
          /\ layers' = layers \cup {layer_digest[p]}
          /\ uploads' = CloseUpload(id)
          /\ pc' = [pc EXCEPT ![p] = "put_image"]
          /\ calls' = [calls EXCEPT ![p] =
                          Append(@, Call("complete_layer_upload", key, "ok", id))]
          /\ UNCHANGED <<runs, faults, repo_uri, contents, idx, results, ret, raised,
                         file_bytes, image_tag, upload_id, layer_digest, firstTag>>
       \/ /\ ~CompletionValid(id, layer_digest[p])
          /\ UNCHANGED <<uploads, layers>>
          /\ Refuse(p, "complete_layer_upload", key, id)
       \/ /\ UNCHANGED <<uploads, layers>>
          /\ ExceptClientError(p, "complete_layer_upload", key, id)

\* The registry's check of a manifest: the blobs it names are layers it holds.
ManifestValid(m) ==
    /\ m.config.digest \in layers
    /\ \A i \in 1..Len(m.layers) : m.layers[i].digest \in layers

\* The tags after tag t is put on manifest m: last writer wins.
TagImage(t, m) == [x \in DOMAIN tags \cup {t} |-> IF x = t THEN m ELSE tags[x]]

\* put_image(imageManifest, imageTag=image_tag), return image_tag, and the
\* append to results in lambda_handler
PutImage(p) ==
    LET key == contents[p][idx[p]]
        m   == imageManifest(layer_digest[p], Len(file_bytes[p]))
    IN
    /\ pc[p] = "put_image"
    /\ sent' = [sent EXCEPT ![p] = Append(@, PutImageArgs(key, m, image_tag[p]))]
    /\ prev_raised' = prev_raised
    /\ UNCHANGED <<bucket, repository, uploads, nextUploadId, layers, sweepVars>>
    /\ \/ /\ ManifestValid(m)
          /\ images' = images \cup {m}
          /\ tags' = TagImage(image_tag[p], m)
          /\ calls' = [calls EXCEPT ![p] = Append(@, Call("put_image", key, "ok", 0))]
          /\ firstTag' = IF firstTag[file_bytes[p]] = NoTag
                         THEN [firstTag EXCEPT ![file_bytes[p]] = image_tag[p]]
                         ELSE firstTag
          /\ LoopNext(p, Append(results[p],
                                [object_key |-> key, image_tag |-> image_tag[p]]))
          /\ image_tag' = [image_tag EXCEPT ![p] = NoTag]
          /\ upload_id' = [upload_id EXCEPT ![p] = 0]
          /\ layer_digest' = [layer_digest EXCEPT ![p] = NoLayerDigest]
          /\ UNCHANGED <<runs, faults, repo_uri, contents, raised>>
       \/ /\ ~ManifestValid(m)
          /\ UNCHANGED <<images, tags>>
          /\ Refuse(p, "put_image", key, 0)
       \/ /\ UNCHANGED <<images, tags>>
          /\ ExceptClientError(p, "put_image", key, 0)

\* The execution context serves the next invocation.
Reinvoke(p) ==
    /\ pc[p] \in {"done", "raised"}
    /\ runs[p] < MaxRuns
    /\ runs' = [runs EXCEPT ![p] = @ + 1]
    /\ pc' = [pc EXCEPT ![p] = "describe_repositories"]
    /\ faults' = [faults EXCEPT ![p] = 0]
    /\ repo_uri' = [repo_uri EXCEPT ![p] = "none"]
    /\ contents' = [contents EXCEPT ![p] = <<>>]
    /\ idx' = [idx EXCEPT ![p] = 0]
    /\ results' = [results EXCEPT ![p] = <<>>]
    /\ ret' = [ret EXCEPT ![p] = NoReturn]
    /\ raised' = [raised EXCEPT ![p] = "none"]
    /\ calls' = [calls EXCEPT ![p] = <<>>]
    /\ sent' = [sent EXCEPT ![p] = <<>>]
    /\ prev_raised' = [prev_raised EXCEPT ![p] = raised[p]]
    /\ DropLocals(p)
    /\ UNCHANGED <<bucket, registryVars, firstTag, sweepVars>>

\* ------------------------------------------- cleanup_untagged_images

\* What a sweep has logged before it logs anything.
NoSweepOut == [logged |-> "none", deleted |-> {}, failures |-> {}]

\* A call of the sweep as the history keeps it: the identifiers it sent, the
\* registry's state when it was made, and the images the call removed.
SweepCall(api, out, batch, removed) ==
    [api |-> api, out |-> out, batch |-> batch, removed |-> removed,
     taggedThen |-> images \ Untagged, untaggedThen |-> Untagged]

\* Fault seeding: the error of describe_images is logged and raised again.
ExceptDescribeImages_Raise ==
    /\ image_ids' = {}
    /\ sweep_out' = [NoSweepOut EXCEPT !.logged = "Failed to describe images for cleanup"]
    /\ sweep_ret' = NoReturn
    /\ sweep_pc' = "raised"
    /\ sweep_calls' = Append(sweep_calls, SweepCall("describe_images", "error", {}, {}))

\* except ClientError around describe_images: log, then return
ExceptDescribeImages ==
    /\ image_ids' = {}
    /\ sweep_out' = [NoSweepOut EXCEPT !.logged = "Failed to describe images for cleanup"]
    /\ sweep_ret' = None
    /\ sweep_pc' = "done"
    /\ sweep_calls' = Append(sweep_calls, SweepCall("describe_images", "error", {}, {}))

\* describe_images(filter={"tagStatus": "UNTAGGED"}), image_ids, and the
\* return when there are none
DescribeImages ==
    /\ sweep_pc = "describe_images"
    /\ UNCHANGED <<bucket, registryVars, handlerVars, sweeps>>
    /\ \/ /\ Untagged = {}
          /\ image_ids' = {}
          /\ sweep_out' = [NoSweepOut EXCEPT !.logged = "No untagged images found"]
          /\ sweep_ret' = None
          /\ sweep_pc' = "done"
          /\ sweep_calls' = Append(sweep_calls, SweepCall("describe_images", "ok", {}, {}))
       \/ /\ Untagged # {}
          /\ image_ids' = {[imageDigest |-> imageDigest(m)] : m \in Untagged}
          /\ sweep_out' = NoSweepOut
          /\ sweep_ret' = NoReturn
          /\ sweep_pc' = "batch_delete_image"
          /\ sweep_calls' = Append(sweep_calls, SweepCall("describe_images", "ok", {}, {}))
       \/ ExceptDescribeImages

\* The batch the sweep sends: one identifier per listed image, by digest.
\* Fault seeding: the test of the comprehension is negated.
Batch_Negated(ids) == {[imageDigest |-> img.imageDigest] : img \in {}}

Batch(ids) == {[imageDigest |-> img.imageDigest] : img \in ids}

\* The images a batch names that the registry holds.
Named(batch) == {m \in images : [imageDigest |-> imageDigest(m)] \in batch}

\* Fault seeding: the error of batch_delete_image is logged and raised again.
ExceptBatchDelete_Raise(batch) ==
    /\ sweep_out' = [NoSweepOut EXCEPT !.logged = "Failed to delete untagged images"]
    /\ sweep_ret' = NoReturn
    /\ sweep_calls' = Append(sweep_calls,
                             SweepCall("batch_delete_image", "error", batch, {}))
    /\ sweep_pc' = "raised"

\* except ClientError around batch_delete_image: log; the function ends
ExceptBatchDelete(batch) ==
    /\ sweep_out' = [NoSweepOut EXCEPT !.logged = "Failed to delete untagged images"]
    /\ sweep_ret' = None
    /\ sweep_calls' = Append(sweep_calls,
                             SweepCall("batch_delete_image", "error", batch, {}))
    /\ sweep_pc' = "done"

\* batch_delete_image(imageIds=batch): the registry removes the images it
\* is given by digest, with the tags that point to them, except those it
\* rejects, which it reports as failures
BatchDeleteImage ==
    LET batch == Batch(image_ids) IN
    /\ sweep_pc = "batch_delete_image"
    /\ UNCHANGED <<bucket, repository, uploads, nextUploadId, layers, handlerVars, sweeps>>
    /\ image_ids' = {}
    /\ \/ \E rejected \in SUBSET Named(batch) :
             LET removed == Named(batch) \ rejected
                 failed  == batch \ {[imageDigest |-> imageDigest(m)] : m \in removed}
             IN
             /\ images' = images \ removed
             /\ tags' = [t \in {x \in DOMAIN tags : tags[x] \notin removed} |-> tags[t]]
             /\ sweep_out' = [logged |-> IF failed = {} THEN "Deleted"
                                         ELSE "Some images failed to delete",
                              deleted |-> {[imageDigest |-> imageDigest(m)] : m \in removed},
                              failures |-> failed]
             /\ sweep_ret' = None
             /\ sweep_calls' = Append(sweep_calls,
                                      SweepCall("batch_delete_image", "ok", batch, removed))
             /\ sweep_pc' = "done"
       \/ /\ UNCHANGED <<images, tags>>
          /\ ExceptBatchDelete(batch)

\* The sweep is run again.
SweepAgain ==
    /\ sweep_pc = "done"
    /\ sweeps < MaxSweeps
    /\ sweeps' = sweeps + 1
    /\ sweep_pc' = "describe_images"
    /\ sweep_out' = NoSweepOut
    /\ sweep_ret' = NoReturn
    /\ UNCHANGED <<bucket, registryVars, handlerVars, image_ids, sweep_calls>>

\* The calls of the sweep that made the last call.
LastSweep ==
    LET start == CHOOSE i \in DOMAIN sweep_calls :
                     /\ sweep_calls[i].api = "describe_images"
                     /\ \A j \in (i + 1)..Len(sweep_calls) :
                            sweep_calls[j].api # "describe_images"
    IN  SubSeq(sweep_calls, start, Len(sweep_calls))

\* The function is called again, any number of times: the history keeps the
\* calls of the sweep that just ended and drops the older ones, and the
\* count of sweeps stops at MaxSweeps.
SweepRepeat ==
    /\ sweep_pc = "done"
    /\ sweeps' = IF sweeps < MaxSweeps THEN sweeps + 1 ELSE sweeps
    /\ sweep_pc' = "describe_images"
    /\ sweep_out' = NoSweepOut
    /\ sweep_ret' = NoReturn
    /\ sweep_calls' = LastSweep
    /\ UNCHANGED <<bucket, registryVars, handlerVars, image_ids>>

\* describe_images answers.
ListingAnswers ==
    /\ DescribeImages
    /\ sweep_calls'[Len(sweep_calls')].out = "ok"

\* batch_delete_image removes image m.
Deletes(m) ==
    /\ BatchDeleteImage
    /\ m \in images
    /\ m \notin images'

\* ------------------------------------------------------ specifications

\* Every bucket: each key absent, or holding some bytes.
Buckets(keys) == UNION {[ks -> Bytes] : ks \in SUBSET keys}

InitRegistry ==
    /\ repository \in {NoRepository, RepositoryRecord(ECR_REPO_NAME)}
    /\ uploads = <<>>
    /\ nextUploadId = 1
    /\ layers = {}
    /\ images = {}
    /\ tags = <<>>

\* The invocations in started begin; the others never run.
InitHandlers(started) ==
    /\ pc = [p \in Procs |-> IF p \in started THEN "describe_repositories" ELSE "off"]
    /\ runs = [p \in Procs |-> IF p \in started THEN 1 ELSE 0]
    /\ faults = [p \in Procs |-> 0]
    /\ repo_uri = [p \in Procs |-> "none"]
    /\ contents = [p \in Procs |-> <<>>]
    /\ idx = [p \in Procs |-> 0]
    /\ results = [p \in Procs |-> <<>>]
    /\ ret = [p \in Procs |-> NoReturn]
    /\ raised = [p \in Procs |-> "none"]
    /\ file_bytes = [p \in Procs |-> NoBytes]
    /\ image_tag = [p \in Procs |-> NoTag]
    /\ upload_id = [p \in Procs |-> 0]
    /\ layer_digest = [p \in Procs |-> NoLayerDigest]
    /\ calls = [p \in Procs |-> <<>>]
    /\ sent = [p \in Procs |-> <<>>]
    /\ prev_raised = [p \in Procs |-> "none"]
    /\ firstTag = [b \in Bytes |-> NoTag]

\* The sweep starts in state at (never, when "off").
InitSweep(at) ==
    /\ sweep_pc = at
    /\ sweeps = IF at = "off" THEN 0 ELSE 1
    /\ image_ids = {}
    /\ sweep_out = NoSweepOut
    /\ sweep_ret = NoReturn
    /\ sweep_calls = <<>>

\* One invocation of the entry point.
Init ==
    /\ bucket \in Buckets(Keys)
    /\ InitRegistry
    /\ InitHandlers({1})
    /\ InitSweep("off")

Step(p) ==
    \/ DescribeRepositories(p)
    \/ CreateRepository(p)
    \/ ListObjects(p)
    \/ GetObject(p)
    \/ GetAuthorizationToken(p)
    \/ InitiateLayerUpload(p)
    \/ UploadLayerPart(p)
    \/ CompleteLayerUpload(p)
    \/ PutImage(p)

Next == \E p \in Procs : Step(p)

Spec == Init /\ [][Next]_vars

\* One execution context serving invocations one after the other, over an
\* unchanged bucket.
RerunKeys == {"A", "B"}

InitRerun ==
    /\ bucket \in Buckets(RerunKeys)
    /\ InitRegistry
    /\ InitHandlers({1})
    /\ InitSweep("off")

NextRerun == \E p \in Procs : Step(p) \/ Reinvoke(p)

SpecRerun == InitRerun /\ [][NextRerun]_vars

\* Two invocations at once over the same bucket.
ConcKeys == {"A", "B"}

InitConc ==
    /\ bucket \in Buckets(ConcKeys)
    /\ InitRegistry
    /\ InitHandlers(Procs)
    /\ InitSweep("off")

NextConc == \E p \in Procs : Step(p)

SpecConc == InitConc /\ [][NextConc]_vars

\* The manifests of every content, as an earlier publish left them.
StoredManifests == {imageManifest(LayerDigest(b), Len(b)) : b \in Bytes}

\* A registry that already holds images no tag points to.
InitStoredRegistry ==
    /\ repository \in {NoRepository, RepositoryRecord(ECR_REPO_NAME)}
    /\ uploads = <<>>
    /\ nextUploadId = 1
    /\ images \in {ms \in SUBSET StoredManifests : Cardinality(ms) <= MaxStored}
    /\ layers = {m.config.digest : m \in images}
    /\ tags = <<>>

\* A sweep run on demand while an invocation publishes.
RaceKeys == {"A"}

InitRace ==
    /\ bucket \in Buckets(RaceKeys)
    /\ InitStoredRegistry
    /\ InitHandlers({1})
    /\ InitSweep("describe_images")

NextRace ==
    \/ Step(1)
    \/ DescribeImages
    \/ BatchDeleteImage

SpecRace == InitRace /\ [][NextRace]_vars

\* Sweeps run on demand, one after the other, with no invocation running.
InitSweeps ==
    /\ bucket \in Buckets({})
    /\ InitStoredRegistry
    /\ InitHandlers({})
    /\ InitSweep("describe_images")

NextSweep ==
    \/ DescribeImages
    \/ BatchDeleteImage
    \/ SweepAgain

SpecSweep == InitSweeps /\ [][NextSweep]_vars

\* Sweeps repeated for ever over a registry that holds untagged images of
\* the contents RepeatContents: every call returns and the function is called
\* again (weak fairness), the listing answers again and again, and the
\* registry does not reject the deletion of an image for ever (strong
\* fairness: each is possible only now and then).
RepeatContents == {<<>>, <<0>>, <<255>>}

RepeatManifests == {imageManifest(LayerDigest(b), Len(b)) : b \in RepeatContents}

InitSweepsFair ==
    /\ bucket \in Buckets({})
    /\ repository \in {NoRepository, RepositoryRecord(ECR_REPO_NAME)}
    /\ uploads = <<>>
    /\ nextUploadId = 1
    /\ images \in SUBSET RepeatManifests
    /\ layers = {m.config.digest : m \in images}
    /\ tags = <<>>
    /\ InitHandlers({})
    /\ InitSweep("describe_images")

NextSweepFair ==
    \/ DescribeImages
    \/ BatchDeleteImage
    \/ SweepRepeat

SpecSweepFair ==
    /\ InitSweepsFair
    /\ [][NextSweepFair]_vars
    /\ WF_vars(DescribeImages)
    /\ WF_vars(BatchDeleteImage)
    /\ WF_vars(SweepRepeat)
    /\ SF_vars(ListingAnswers)
    /\ \A m \in RepeatManifests : SF_vars(Deletes(m))

\* One invocation that is run to its end: the runtime keeps executing the
\* handler, and every call returns or raises.
SpecFair == Init /\ [][Next]_vars /\ WF_vars(Next)

\* ------------------------------------------------------------- properties

\* The positions in the history of invocation p of the calls of one api.
CallsOf(p, api) == {i \in DOMAIN calls[p] : calls[p][i].api = api}

\* The calls upload_to_ecr makes to the registry for its layer and image.
LayerApis == {"initiate_layer_upload", "upload_layer_part",
              "complete_layer_upload", "put_image"}

\* Every call upload_to_ecr makes.
PublishApis == LayerApis \cup {"get_authorization_token"}

\* The calls of repository provisioning.
ProvisionApis == {"describe_repositories", "create_repository"}

\* The calls of the sweep.
SweepApis == {"describe_images", "batch_delete_image"}

\* Invocation p has returned the report of a sync.
ReturnedSuccess(p) == pc[p] = "done" /\ ret[p].status = "success"

\* The tag of a content, from its definition: 12 hex digits of its SHA-256.
TagOf(b) == First12(sha256_hexdigest(b))

\* The manifest of a content, from its definition.
ManifestOf(b) == imageManifest(Sha256Prefixed(sha256_hexdigest(b)), Len(b))

\* C1: in every run that enters the per-object loop and returns its report,
\* the sweep (its describe_images call) has been attempted exactly once by
\* that run, after the loop and before the return.
C1_SweepOnceAfterLoop ==
    \A p \in Procs :
        ReturnedSuccess(p) =>
            /\ Cardinality(CallsOf(p, "describe_images")) = 1
            /\ \A i \in CallsOf(p, "describe_images"), j \in DOMAIN calls[p] :
                   calls[p][j].api \notin SweepApis => j < i

\* The listed keys whose fetch succeeded, in listing order.
FetchedKeys(p) ==
    SelectSeq(contents[p],
              LAMBDA k : \E i \in CallsOf(p, "get_object") :
                            calls[p][i].key = k /\ calls[p][i].out = "ok")

\* The listed keys whose fetch failed.
FailedKeys(p) ==
    {calls[p][i].key : i \in {j \in CallsOf(p, "get_object") : calls[p][j].out = "error"}}

\* C2: fetch failures never abort the run; a run that ends without a failed
\* publish returns "success" with exactly the listed keys whose fetch
\* succeeded, in listing order, each with the tag of its bytes; a key whose
\* fetch failed is in no item and in no registry call.
C2_PartialFetchFailure ==
    \A p \in Procs :
        /\ pc[p] = "raised" => raised[p] # "get_object"
        /\ \A k \in FailedKeys(p) :
               \A i \in DOMAIN calls[p] :
                   calls[p][i].key = k =>
                       calls[p][i].api = "get_object" /\ calls[p][i].out = "error"
        /\ ReturnedSuccess(p) =>
               /\ contents[p] = Listing
               /\ \A k \in DOMAIN bucket :
                      Cardinality({i \in CallsOf(p, "get_object") : calls[p][i].key = k}) = 1
               /\ ret[p].items =
                      [i \in 1..Len(FetchedKeys(p)) |->
                          [object_key |-> FetchedKeys(p)[i],
                           image_tag |-> TagOf(bucket[FetchedKeys(p)[i]])]]

\* C2's case: B failed to fetch, A and C were published, the report holds A and C.
C2_Witness ==
    /\ ReturnedSuccess(1)
    /\ Listing = <<"A", "B", "C">>
    /\ FailedKeys(1) = {"B"}
    /\ Len(ret[1].items) = 2
    /\ ret[1].items[1].object_key = "A"
    /\ ret[1].items[2].object_key = "C"

\* Invocation p takes the step in which put_image succeeds and upload_to_ecr
\* returns.
PublishReturns(p) == pc[p] = "put_image" /\ pc'[p] \in {"get_object", "done"}

\* C3: a publish of bytes that were published before (under any key, in this
\* run or an earlier one) returns the tag the first publish returned, and
\* leaves the registry with no tag, no manifest and no layer it did not hold.
C3_IdempotentPublish ==
    [][\A p \in Procs :
          (PublishReturns(p) /\ firstTag[file_bytes[p]] # NoTag) =>
              /\ results'[p][Len(results'[p])].image_tag = firstTag[file_bytes[p]]
              /\ DOMAIN tags' = DOMAIN tags
              /\ images' = images
              /\ layers' = layers]_vars

\* C3's case: in a second run over the unchanged bucket, two keys that hold
\* the same bytes have both been published again.
C3_Witness ==
    /\ runs[1] = 2
    /\ Len(results[1]) = 2
    /\ bucket[results[1][1].object_key] = bucket[results[1][2].object_key]
    /\ firstTag[bucket[results[1][1].object_key]] = results[1][2].image_tag
    /\ Cardinality(images) = 1

\* The layer calls made for key k by invocation p, in order.
LayerCalls(p, k) ==
    SelectSeq(calls[p], LAMBDA c : c.key = k /\ c.api \in LayerApis)

\* The order upload_to_ecr makes its layer calls in.
LayerOrder == <<"initiate_layer_upload", "upload_layer_part",
                "complete_layer_upload", "put_image">>

\* C4: the layer calls of every publish are a prefix of initiate, part,
\* complete, put, each made once and only after the one before it succeeded;
\* part and complete carry the upload identifier initiate returned; so a tag
\* exists only for a layer whose completion succeeded, and a transfer the
\* registry rejected at completion never reaches put_image.
C4_UploadOrder ==
    /\ \A p \in Procs : \A k \in Keys :
           LET s == LayerCalls(p, k) IN
           /\ Len(s) <= Len(LayerOrder)
           /\ \A i \in 1..Len(s) :
                  /\ s[i].api = LayerOrder[i]
                  /\ i > 1 => s[i - 1].out = "ok"
                  /\ s[i].api \in {"upload_layer_part", "complete_layer_upload"} =>
                         s[i].uploadId = s[1].uploadId /\ s[1].uploadId # 0
    /\ \A t \in DOMAIN tags : tags[t].config.digest \in layers
    /\ layers \subseteq {Sha256Prefixed(sha256_hexdigest(bucket[k])) : k \in DOMAIN bucket}

\* C4's case: A was published by the four calls in order, and the transfer
\* of B was corrupted, so that the registry rejected its completion and no
\* put_image followed.
C4_Witness ==
    /\ Len(LayerCalls(1, "A")) = 4
    /\ LayerCalls(1, "A")[4].out = "ok"
    /\ raised[1] = "complete_layer_upload"
    /\ Len(LayerCalls(1, "B")) = 3
    /\ \E id \in DOMAIN uploads : uploads[id] \notin {NoBytes, bucket["B"]}
    /\ faults[1] = 1

\* C5: a failed call of a publish is the last call of its run: the run
\* leaves by the exception, returns nothing, its results are gone, and no
\* later object is fetched or published.
C5_PublishFailureFatal ==
    \A p \in Procs : \A i \in DOMAIN calls[p] :
        (calls[p][i].api \in PublishApis /\ calls[p][i].out = "error") =>
            /\ i = Len(calls[p])
            /\ pc[p] = "raised"
            /\ raised[p] = calls[p][i].api
            /\ ret[p] = NoReturn
            /\ results[p] = <<>>
            /\ \A j \in idx[p] + 1..Len(contents[p]) :
                   \A c \in DOMAIN calls[p] : calls[p][c].key # contents[p][j]

\* C5's case: A was published, the publish of B failed at put_image, and C
\* is still to come.
C5_Witness ==
    /\ raised[1] = "put_image"
    /\ contents[1] = <<"A", "B", "C">>
    /\ idx[1] = 2
    /\ \E i \in CallsOf(1, "put_image") : calls[1][i].key = "A" /\ calls[1][i].out = "ok"
    /\ ret[1] = NoReturn

\* C6: over an empty bucket a run makes no call but those of provisioning
\* and the listing, no sweep call is made, and the run that lists returns
\* "no_objects".
C6_EmptySourceSet ==
    \A p \in Procs :
        Listing = <<>> =>
            /\ \A i \in DOMAIN calls[p] :
                   calls[p][i].api \in ProvisionApis \cup {"list_objects_v2"}
            /\ sweep_calls = <<>>
            /\ images = {} /\ tags = <<>> /\ layers = {} /\ uploads = <<>>
            /\ pc[p] = "done" => ret[p] = [status |-> "no_objects"]
            /\ (\E i \in CallsOf(p, "list_objects_v2") : calls[p][i].out = "ok")
                   => pc[p] = "done"

\* C6's case: the repository was created, the listing was empty, the run
\* returned "no_objects".
C6_Witness ==
    /\ Listing = <<>>
    /\ pc[1] = "done"
    /\ ret[1] = [status |-> "no_objects"]
    /\ CallsOf(1, "create_repository") # {}

\* Every invocation has returned its report.
AllReturnedSuccess == \A p \in Procs : ReturnedSuccess(p)

\* The contents the invocations published.
Published ==
    UNION {{bucket[ret[p].items[i].object_key] : i \in 1..Len(ret[p].items)} : p \in Procs}

\* Every item of every report carries the tag of its content.
ReportsCarryContentTags ==
    \A p \in Procs : \A i \in 1..Len(ret[p].items) :
        ret[p].items[i].image_tag = TagOf(bucket[ret[p].items[i].object_key])

\* C7 as stated: once two concurrent invocations have returned, every
\* published content has its tag pointing to its own manifest, and two
\* different published contents have two different tags.
C7_ConvergeOrDiffer ==
    AllReturnedSuccess =>
        /\ ReportsCarryContentTags
        /\ \A a \in Published :
               TagOf(a) \in DOMAIN tags /\ tags[TagOf(a)] = ManifestOf(a)
        /\ \A a, b \in Published : a # b => TagOf(a) # TagOf(b)

\* C7 as amended: identical bytes get the same tag from both invocations;
\* a content whose 12 hex digits no other published content shares ends with
\* its tag on its own manifest, so contents that differ in these digits end
\* with different tags, neither overwriting the other; contents that share
\* them share one tag, which ends on the manifest of one of them, and the
\* manifests of both stay in the registry.
C7_ConvergeOrDifferByPrefix ==
    AllReturnedSuccess =>
        /\ ReportsCarryContentTags
        /\ \A a \in Published :
               /\ ManifestOf(a) \in images
               /\ TagOf(a) \in DOMAIN tags
               /\ tags[TagOf(a)] \in {ManifestOf(b) : b \in {c \in Published : TagOf(c) = TagOf(a)}}
        /\ DOMAIN tags = {TagOf(a) : a \in Published}
        /\ images = {ManifestOf(a) : a \in Published}

\* C7's case: both invocations published A and B, which differ in their 12
\* digits, and the registry holds the two tags, each on its own manifest.
C7_Witness ==
    /\ AllReturnedSuccess
    /\ \A p \in Procs : Len(ret[p].items) = 2
    /\ TagOf(bucket["A"]) # TagOf(bucket["B"])
    /\ tags[TagOf(bucket["A"])] = ManifestOf(bucket["A"])
    /\ tags[TagOf(bucket["B"])] = ManifestOf(bucket["B"])

\* C8: no image that carries a tag when batch_delete_image is called is
\* removed by that call.
C8_NoTaggedImageRemoved ==
    \A i \in DOMAIN sweep_calls :
        sweep_calls[i].removed \cap sweep_calls[i].taggedThen = {}

\* The outcome of the describe_repositories call of invocation p, if made.
Described(p, out) ==
    \E i \in CallsOf(p, "describe_repositories") : calls[p][i].out = out

\* The outcome of the create_repository call of invocation p, if made.
Created(p, out) ==
    \E i \in CallsOf(p, "create_repository") : calls[p][i].out = out

\* Invocation p is past ensure_repository_exists, which returned.
Ensured(p) == pc[p] \notin {"off", "describe_repositories", "create_repository", "raised"}
              \/ (pc[p] = "raised" /\ raised[p] \notin ProvisionApis)

\* C9: describe_repositories is called once; found: its URI is returned and
\* create_repository is not called; not found: create_repository is called
\* once and the URI of the new repository is returned (or its error leaves);
\* any other failure: the error leaves, with no create and no second describe.
C9_EnsureRepository ==
    \A p \in Procs :
        /\ Cardinality(CallsOf(p, "describe_repositories")) <= 1
        /\ Cardinality(CallsOf(p, "create_repository")) <= 1
        /\ Described(p, "ok") =>
               /\ CallsOf(p, "create_repository") = {}
               /\ Ensured(p)
        /\ Described(p, "not_found") =>
               \/ pc[p] = "create_repository" /\ CallsOf(p, "create_repository") = {}
               \/ Created(p, "ok") /\ Ensured(p)
               \/ Created(p, "error") /\ pc[p] = "raised" /\ raised[p] = "create_repository"
        /\ Described(p, "error") =>
               /\ CallsOf(p, "create_repository") = {}
               /\ pc[p] = "raised" /\ raised[p] = "describe_repositories"
               /\ Len(calls[p]) = 1
        /\ Created(p, "ok") => calls[p][2] = Call("create_repository", "-", "ok", 0)
        /\ Ensured(p) =>
               /\ repository = RepositoryRecord(ECR_REPO_NAME)
               /\ repo_uri[p] = repository.repositoryUri
        /\ ~Ensured(p) => repo_uri[p] = "none"

\* C9's case: the repository was not found, create_repository was called
\* once and the new URI was returned.
C9_Witness ==
    /\ Described(1, "not_found")
    /\ Created(1, "ok")
    /\ pc[1] = "list_objects_v2"
    /\ repo_uri[1] = RepositoryRecord(ECR_REPO_NAME).repositoryUri

\* C10: a run starts with provisioning, made once and before every other
\* call; if provisioning fails the run leaves by that error having made no
\* listing, fetch, publish or sweep call.
C10_ProvisionFirstAndFatal ==
    \A p \in Procs :
        /\ calls[p] # <<>> => calls[p][1].api = "describe_repositories"
        /\ Cardinality(CallsOf(p, "describe_repositories")) <= 1
        /\ Cardinality(CallsOf(p, "create_repository")) <= 1
        /\ \A i \in CallsOf(p, "create_repository") : i = 2
        /\ \A i \in DOMAIN calls[p] :
               calls[p][i].api \notin ProvisionApis =>
                   \/ calls[p][1].out = "ok"
                   \/ calls[p][1].out = "not_found" /\ Created(p, "ok")
        /\ (Described(p, "error") \/ Created(p, "error")) =>
               /\ pc[p] = "raised"
               /\ raised[p] \in ProvisionApis
               /\ ret[p] = NoReturn
               /\ \A i \in DOMAIN calls[p] : calls[p][i].api \in ProvisionApis
               /\ sweep_calls = <<>>
               /\ images = {} /\ tags = <<>>

\* C10's case: provisioning failed at create_repository and the run left by
\* that error after its two calls, over a bucket that holds objects.
C10_Witness ==
    /\ raised[1] = "create_repository"
    /\ Len(calls[1]) = 2
    /\ Listing # <<>>
    /\ ret[1] = NoReturn

\* The last call the sweeps made.
LastSweepCall == sweep_calls[Len(sweep_calls)]

\* C11: the sweep never leaves by an exception: a describe_images that fails
\* ends the sweep with no delete call; a batch_delete_image that fails
\* entirely, or that reports failures for some identifiers, ends the sweep
\* normally, with the failures reported.
C11_SweepNeverRaises ==
    /\ sweep_pc # "raised"
    /\ \A i \in DOMAIN sweep_calls :
           (sweep_calls[i].api = "describe_images" /\ sweep_calls[i].out = "error") =>
               /\ i < Len(sweep_calls) => sweep_calls[i + 1].api = "describe_images"
               /\ i = Len(sweep_calls) => sweep_pc \in {"done", "describe_images"}
    /\ (sweep_calls # <<>> /\ LastSweepCall.api = "batch_delete_image") =>
           /\ sweep_pc \in {"done", "describe_images"}
           /\ (sweep_pc = "done" /\ LastSweepCall.out = "error") =>
                  sweep_out = [NoSweepOut EXCEPT !.logged = "Failed to delete untagged images"]
           /\ (sweep_pc = "done" /\ LastSweepCall.out = "ok") =>
                  /\ sweep_out.failures =
                         LastSweepCall.batch \
                             {[imageDigest |-> imageDigest(m)] : m \in LastSweepCall.removed}
                  /\ sweep_out.failures # {} =>
                         sweep_out.logged = "Some images failed to delete"

\* C11's case: a sweep whose listing failed ended with no delete call, and
\* the next sweep ended normally after a delete that removed one image and
\* reported a failure for another.
C11_Witness ==
    /\ Len(sweep_calls) = 3
    /\ sweep_calls[1].api = "describe_images" /\ sweep_calls[1].out = "error"
    /\ sweep_calls[3].api = "batch_delete_image" /\ sweep_calls[3].out = "ok"
    /\ sweep_pc = "done"
    /\ Cardinality(sweep_out.deleted) = 1
    /\ Cardinality(sweep_out.failures) = 1

\* The sweep that made the last call listed no untagged image and has ended.
EndedOnEmptyListing ==
    /\ sweep_calls # <<>>
    /\ LastSweepCall.api = "describe_images"
    /\ LastSweepCall.out = "ok"
    /\ sweep_pc = "done"

\* C12: when the listing of untagged images is empty, the sweep returns at
\* once the result {deleted: 0, failures: []}, without an error and without a
\* batch delete call.
C12_EmptyListingResult ==
    EndedOnEmptyListing =>
        /\ sweep_ret = [deleted |-> 0, failures |-> <<>>]
        /\ image_ids = {}
        /\ sweep_out.deleted = {} /\ sweep_out.failures = {}

\* The arguments invocation p sent with its calls of api.
SentOf(p, api) == {i \in DOMAIN sent[p] : sent[p][i].api = api}

\* "sha256:" and the full hash of b.
DigestOf(b) == Sha256Prefixed(sha256_hexdigest(b))

\* C13: for every publish of bytes b, the digest declared to
\* complete_layer_upload is "sha256:" and the hash of b; the manifest put has
\* a config descriptor and exactly one layer descriptor, both with that digest
\* and the size len(b); and the tag put is the first 12 hex digits of the hash
\* of b.
C13_DigestAndManifest ==
    \A p \in Procs : \A i \in DOMAIN sent[p] :
        LET a == sent[p][i]
            b == bucket[a.key]
        IN  /\ a.api = "upload_layer_part" => a.layerPartBlob = b
            /\ a.api = "complete_layer_upload" => a.layerDigests = <<DigestOf(b)>>
            /\ a.api = "put_image" =>
                   /\ a.imageManifest.config.digest = DigestOf(b)
                   /\ a.imageManifest.config.size = Len(b)
                   /\ Len(a.imageManifest.layers) = 1
                   /\ a.imageManifest.layers[1].digest = DigestOf(b)
                   /\ a.imageManifest.layers[1].size = Len(b)
                   /\ a.imageTag = First12(sha256_hexdigest(b))

\* C13's case: a run that published three objects, one empty and two of
\* one byte and different contents, and returned.
C13_Witness ==
    /\ ReturnedSuccess(1)
    /\ Len(ret[1].items) = 3
    /\ Cardinality(SentOf(1, "put_image")) = 3
    /\ Cardinality(SentOf(1, "complete_layer_upload")) = 3
    /\ Len(bucket["A"]) = 0
    /\ Len(bucket["B"]) = 1
    /\ bucket["C"] # bucket["B"]

\* The tags a single run with no failure leaves in an empty registry: each
\* listed object's tag, on the manifest of the last listed object that has it.
FailureFreeTags ==
    [t \in {TagOf(bucket[k]) : k \in DOMAIN bucket} |->
        LET last == CHOOSE i \in 1..Len(Listing) :
                        /\ TagOf(bucket[Listing[i]]) = t
                        /\ \A j \in (i + 1)..Len(Listing) : TagOf(bucket[Listing[j]]) # t
        IN  ManifestOf(bucket[Listing[last]])]

\* Invocation p follows one that an error left, and has returned its report
\* with no call failed.
RetriedWithoutFailure(p) ==
    /\ prev_raised[p] # "none"
    /\ ReturnedSuccess(p)
    /\ faults[p] = 0

\* C14: after a run that a fatal error left, at whatever step, a new
\* invocation over the same objects that meets no failure leaves the registry
\* with exactly the tags, and tagged manifests, of a single run without
\* failure: no tag is missing, extra or on another manifest.
C14_RetryFromScratch ==
    RetriedWithoutFailure(1) => tags = FailureFreeTags

\* C14's case: the first run put the image of A and was left by the error of
\* B's put_image, after B's layer was completed; the second run met no failure
\* and returned both objects, of different tags.
C14_Witness ==
    /\ RetriedWithoutFailure(1)
    /\ prev_raised[1] = "put_image"
    /\ Len(ret[1].items) = 2
    /\ Cardinality(DOMAIN tags) = 2
    /\ Cardinality(images) = 2

\* The identifiers of a set of images, by digest.
DigestsOf(ms) == {[imageDigest |-> imageDigest(m)] : m \in ms}

\* The i-th call of the sweeps is a listing that answered with images.
ListedSome(i) ==
    /\ sweep_calls[i].api = "describe_images"
    /\ sweep_calls[i].out = "ok"
    /\ sweep_calls[i].untaggedThen # {}

\* C15: a sweep whose listing is not empty makes exactly one
\* batch_delete_image call, and the batch of that call is exactly the digests
\* of the images listed: no digest is missing and none is added, that of a
\* tagged image in particular; no other sweep makes the call.
C15_OneBatchOfTheListing ==
    \A i \in DOMAIN sweep_calls :
        /\ sweep_calls[i].api = "batch_delete_image" =>
               /\ i > 1
               /\ ListedSome(i - 1)
               /\ sweep_calls[i].batch = DigestsOf(sweep_calls[i - 1].untaggedThen)
        /\ ListedSome(i) =>
               /\ i = Len(sweep_calls) =>
                      /\ sweep_pc = "batch_delete_image"
                      /\ image_ids = DigestsOf(sweep_calls[i].untaggedThen)
               /\ i < Len(sweep_calls) => sweep_calls[i + 1].api = "batch_delete_image"
               /\ i + 1 < Len(sweep_calls) => sweep_calls[i + 2].api = "describe_images"

\* C15's case: the listing answered with two untagged images while the
\* registry also held a tagged one, and the delete call that followed named
\* the two.
C15_Witness ==
    /\ Len(sweep_calls) = 2
    /\ ListedSome(1)
    /\ sweep_calls[1].taggedThen # {}
    /\ sweep_calls[2].api = "batch_delete_image"
    /\ Cardinality(sweep_calls[2].batch) = 2
    /\ DigestsOf(sweep_calls[1].taggedThen) \cap sweep_calls[2].batch = {}

\* The i-th and the j-th call are the delete calls of two sweeps that follow
\* one another.
ConsecutiveDeletes(i, j) ==
    /\ i < j
    /\ sweep_calls[i].api = "batch_delete_image"
    /\ sweep_calls[j].api = "batch_delete_image"
    /\ \A k \in (i + 1)..(j - 1) : sweep_calls[k].api = "describe_images"

\* The identifiers the i-th call asked to delete and that were not deleted.
FailedAt(i) == sweep_calls[i].batch \ DigestsOf(sweep_calls[i].removed)

\* A digest whose deletion failed in one sweep, and whose image is still
\* untagged when the next sweep lists, is in the batch of that sweep.
C16_RetriedByNextSweep ==
    \A i, j \in DOMAIN sweep_calls :
        ConsecutiveDeletes(i, j) =>
            \A d \in FailedAt(i) :
                d \in DigestsOf(sweep_calls[j - 1].untaggedThen) => d \in sweep_calls[j].batch

\* C16: an untagged image whose deletion failed in one sweep and that is
\* still untagged is again in the batch of the next sweep; and when sweeps
\* are repeated and the deletion of a digest does not fail for ever, every
\* image stops being untagged in the registry: it is deleted (or tagged).
C16_EventuallyDeleted ==
    /\ []C16_RetriedByNextSweep
    /\ \A m \in RepeatManifests : (m \in Untagged) ~> (m \notin Untagged)

\* C16's case: the deletion of an image failed in one sweep (the call failed,
\* or the registry rejected the identifier), the next sweep named it again,
\* and this time it was deleted.
C16_Witness ==
    \E i, j \in DOMAIN sweep_calls :
        /\ ConsecutiveDeletes(i, j)
        /\ \E m \in sweep_calls[j].removed : [imageDigest |-> imageDigest(m)] \in FailedAt(i)
        /\ images = {}

\* The calls of lambda_handler in the order of its text.
PcOrder == <<"describe_repositories", "create_repository", "list_objects_v2",
             "get_object", "get_authorization_token", "initiate_layer_upload",
             "upload_layer_part", "complete_layer_upload", "put_image">>

\* How far invocation p is: before its start, then by the object of the loop
\* it is at and the call it makes next, then at its end.
Rank(p) ==
    IF pc[p] = "off" THEN 0
    ELSE IF pc[p] \in {"done", "raised"}
         THEN (Len(KeyOrder) + 2) * Len(PcOrder)
         ELSE idx[p] * Len(PcOrder)
                  + (CHOOSE n \in 1..Len(PcOrder) : PcOrder[n] = pc[p])

\* Invocation p has ended: it returned a result, or an error left it.
Terminated(p) ==
    \/ pc[p] = "done" /\ ret[p].status \in {"success", "no_objects"}
    \/ pc[p] = "raised" /\ raised[p] # "none" /\ ret[p] = NoReturn

\* The calls of api that invocation p made for key k.
CallsFor(p, api, k) == {i \in CallsOf(p, api) : calls[p][i].key = k}

\* Every key is fetched at most once, and published at most once and only
\* after its fetch succeeded.
AtMostOnce(p) ==
    \A k \in Keys :
        /\ Cardinality(CallsFor(p, "get_object", k)) <= 1
        /\ \A api \in PublishApis :
               /\ Cardinality(CallsFor(p, api, k)) <= 1
               /\ \A i \in CallsFor(p, api, k) :
                      \E j \in CallsFor(p, "get_object", k) :
                          j < i /\ calls[p][j].out = "ok"

\* C17: every invocation ends, with a returned result or with an error that
\* leaves it; each of its steps takes it further in the order provisioning,
\* listing, objects in listing order, end, never back; and it fetches each
\* listed key at most once and publishes each fetched object at most once.
C17_LinearAndTerminates ==
    /\ <>Terminated(1)
    /\ [][\A p \in Procs :
              /\ Rank(p)' >= Rank(p)
              /\ calls'[p] # calls[p] => Rank(p)' > Rank(p)]_vars
    /\ [](\A p \in Procs : AtMostOnce(p))

\* C17's case: a run over three objects that ended with its report after
\* the fetch of one of them failed and the two others were published.
C17_Witness ==
    /\ Terminated(1)
    /\ ret[1].status = "success"
    /\ Cardinality(CallsOf(1, "get_object")) = 3
    /\ Cardinality(CallsOf(1, "put_image")) = 2
    /\ Len(calls[1]) > Len(PcOrder)

\* The listing call of invocation p failed.
ListingFailed(p) ==
    \E i \in CallsOf(p, "list_objects_v2") : calls[p][i].out = "error"

\* C18: when list_objects_v2 fails, the error leaves the entry point: nothing
\* is returned, and no fetch, publish or sweep call is made; the registry
\* shows the repository provisioning and nothing else.
C18_ListingFailureFatal ==
    \A p \in Procs :
        ListingFailed(p) =>
            /\ pc[p] = "raised"
            /\ raised[p] = "list_objects_v2"
            /\ ret[p] = NoReturn
            /\ calls[p][Len(calls[p])].api = "list_objects_v2"
            /\ \A i \in 1..(Len(calls[p]) - 1) : calls[p][i].api \in ProvisionApis
            /\ sent[p] = <<>>
            /\ sweep_calls = <<>>
            /\ repository = RepositoryRecord(ECR_REPO_NAME)
            /\ uploads = <<>> /\ layers = {} /\ images = {} /\ tags = <<>>

\* C18's case: the run created the repository, then its listing failed.
C18_Witness ==
    /\ ListingFailed(1)
    /\ Len(calls[1]) = 3
    /\ calls[1][2].api = "create_repository"
    /\ calls[1][2].out = "ok"
    /\ DOMAIN bucket = Keys

\* C19: the one part upload_layer_part sends for an object, a zero-length
\* object included, has a well-formed byte range: partFirstByte = 0,
\* partLastByte = len(bytes) - 1, and 0 <= partFirstByte <= partLastByte.
C19_ByteRangeWellFormed ==
    \A p \in Procs : \A i \in SentOf(p, "upload_layer_part") :
        LET a == sent[p][i]
        IN  /\ a.partFirstByte = 0
            /\ a.partLastByte = Len(bucket[a.key]) - 1
            /\ 0 <= a.partFirstByte
            /\ a.partFirstByte <= a.partLastByte

=============================================================================
